---- MODULE Spec2Model ----
(***************************************************************************)
(* Model of the VersionOps agent (src/versionops_agent.py): the plugin     *)
(* discovery engine (DynamicPlugin) and the collection orchestration       *)
(* (VersionOpsAgent.run_once / run_daemon).                                *)
(***************************************************************************)
EXTENDS Integers, Sequences, FiniteSets, TLC

\* ------------------------------------------------------------------ bounds
MaxPaths == 2
MaxPlugins == 2
MaxCycles == 2

\* ------------------------------------------------------ values and inputs
None == "None"

Digits == {"1", "2"}
Dot == {"."}

\* text samples a probe command can print (sequences of characters)
Texts ==
  { <<"v">>,
    <<"v", "1", "v", "2">>,
    <<"x", "v", "2">>,
    <<"1", ".", "2", ".", "1">> }

\* what a probe prints on stderr: one text with a "v" version, one with a
\* dotted version
ErrTexts == {<<"x", "v", "2">>, <<"1", ".", "2", ".", "1">>}
ExitCodes == {0, 1}

Names == {"nginx", "redis"}
Paths == {"/usr/sbin/nginx", "/opt/app/bin"}

\* version_regex values: a literal prefix followed by one capturing group
\* made of character-class atoms.  many = TRUE is cls{min,}, FALSE is one
\* character of cls.
DigitsPlus == [cls |-> Digits, min |-> 1, many |-> TRUE]
DigitsStar == [cls |-> Digits, min |-> 0, many |-> TRUE]
OneDot == [cls |-> Dot, min |-> 1, many |-> FALSE]

\* r'(\d+\.\d+\.\d+)'
DefaultPattern ==
  [pre |-> <<>>, grp |-> <<DigitsPlus, OneDot, DigitsPlus, OneDot, DigitsPlus>>]
\* r'v(\d+)'
PatVPlus == [pre |-> <<"v">>, grp |-> <<DigitsPlus>>]
\* r'v(\d*)'
PatVStar == [pre |-> <<"v">>, grp |-> <<DigitsStar>>]

Patterns == {DefaultPattern, PatVPlus, PatVStar}

\* -------------------------------------------------------------- re.search
RECURSIVE RunLen(_, _, _)
\* number of consecutive characters of text from position i that are in cls
RunLen(text, i, cls) ==
  IF i > Len(text) \/ text[i] \notin cls THEN 0
  ELSE 1 + RunLen(text, i + 1, cls)

RECURSIVE MatchAtoms(_, _, _, _)
\* position after matching atoms[k..] greedily from position i, or 0
MatchAtoms(text, i, atoms, k) ==
  IF k > Len(atoms) THEN i
  ELSE LET a == atoms[k]
           run == RunLen(text, i, a.cls)
           take == IF a.many THEN run ELSE IF run >= 1 THEN 1 ELSE 0
       IN IF take < a.min THEN 0
          ELSE MatchAtoms(text, i + take, atoms, k + 1)

PrefixAt(text, i, pre) ==
  /\ i + Len(pre) - 1 <= Len(text)
  /\ \A j \in 1..Len(pre) : text[i + j - 1] = pre[j]

\* a match of pattern starts at position i of text
MatchesAt(pattern, text, i) ==
  /\ PrefixAt(text, i, pattern.pre)
  /\ MatchAtoms(text, i + Len(pattern.pre), pattern.grp, 1) # 0

\* group(1) of the match that starts at position i
GroupAt(pattern, text, i) ==
  LET s == i + Len(pattern.pre)
      e == MatchAtoms(text, s, pattern.grp, 1)
  IN SubSeq(text, s, e - 1)

MatchStarts(pattern, text) ==
  {i \in 1..(Len(text) + 1) : MatchesAt(pattern, text, i)}

\* the None that re.search returns when nothing matches
NoMatch == [matched |-> FALSE, group1 |-> <<>>]

\* re.search(pattern, text): the leftmost match, or None
ReSearch(pattern, text) ==
  LET starts == MatchStarts(pattern, text)
  IN IF starts = {} THEN NoMatch
     ELSE LET first == CHOOSE i \in starts : \A j \in starts : i <= j
          IN [matched |-> TRUE, group1 |-> GroupAt(pattern, text, first)]

\* ---------------------------------------------------------- DynamicPlugin
\* what one candidate path is at discovery time: whether it exists and what
\* the probe command prints and returns when it is run
\* how subprocess.run ends: it completes with captured streams and a return
\* code, the 30 second timeout expires, or the program cannot be started
Completed == [kind : {"completed"}, stdout : Texts, stderr : ErrTexts,
              exit_code : ExitCodes]
TimeoutExpired == [kind |-> "timeout", stdout |-> <<>>, stderr |-> <<>>,
                   exit_code |-> 0]
OSError == [kind |-> "oserror", stdout |-> <<>>, stderr |-> <<>>,
            exit_code |-> 0]
Outcomes == Completed \cup {TimeoutExpired, OSError}

\* a candidate path that does not exist has no probe run
NotRun == [kind |-> "notrun", stdout |-> <<>>, stderr |-> <<>>, exit_code |-> 0]
PathEnvs == [exists : {TRUE}, out : Outcomes]
            \cup {[exists |-> FALSE, out |-> NotRun]}

\* a run_command whose timeout clause reports exit code 0
run_command_timeout_ok(out) ==
  IF out.kind = "completed" THEN <<out.stdout, out.stderr, out.exit_code>>
  ELSE IF out.kind = "timeout" THEN <<<<>>, <<"Command timeout">>, 0>>
  ELSE <<<<>>, <<"str(e)">>, 1>>

\* run_command: (stdout, stderr, returncode) of the command, with the
\* synthetic triples of the two except clauses
run_command(out) ==
  IF out.kind = "completed" THEN <<out.stdout, out.stderr, out.exit_code>>
  ELSE IF out.kind = "timeout" THEN <<<<>>, <<"Command timeout">>, 1>>
  ELSE <<<<>>, <<"str(e)">>, 1>>

\* Optional[str]: None, or a string
NoneStr == [some |-> FALSE, val |-> <<>>]
Some(str) == [some |-> TRUE, val |-> str]

\* Python truthiness of an Optional[str]
Truthy(version) == version.some /\ version.val # <<>>

\* get_version without the exit code test
get_version_any_exit(app_config, path, out) ==
  LET res == run_command(out)
      pattern == app_config.version_regex
  IN IF ReSearch(pattern, res[1]).matched
     THEN Some(ReSearch(pattern, res[1]).group1)
     ELSE IF ReSearch(pattern, res[2]).matched
          THEN Some(ReSearch(pattern, res[2]).group1)
          ELSE NoneStr

get_version(app_config, path, out) ==
  LET res == run_command(out)
      stdout == res[1]
      stderr == res[2]
      exit_code == res[3]
      pattern == app_config.version_regex
  IN IF exit_code = 0
     THEN IF ReSearch(pattern, stdout).matched
          THEN Some(ReSearch(pattern, stdout).group1)
          ELSE IF ReSearch(pattern, stderr).matched
               THEN Some(ReSearch(pattern, stderr).group1)
               ELSE NoneStr
     ELSE NoneStr

ApplicationInfo(name, version, path, method) ==
  [name |-> name, version |-> version, path |-> path,
   detection_method |-> method]

RECURSIVE DiscoverFrom(_, _, _)
\* the records appended for candidate paths i.. of the descriptor
DiscoverFrom(app_config, env, i) ==
  LET paths == app_config.default_paths
  IN IF i > Len(paths) THEN <<>>
     ELSE LET path == paths[i]
              version == IF env[i].exists
                         THEN get_version(app_config, path, env[i].out)
                         ELSE NoneStr
              here == IF env[i].exists /\ Truthy(version)
                      THEN <<ApplicationInfo(app_config.name, version.val, path,
                                             "dynamic_plugin")>>
                      ELSE <<>>
          IN here \o DiscoverFrom(app_config, env, i + 1)

\* a default_paths entry that is not a string: os.path.exists raises
\* TypeError for it
Malformed == "<not a path>"

Raises(app_config) ==
  \E i \in DOMAIN app_config.default_paths :
    app_config.default_paths[i] = Malformed

\* the first candidate position at which discover() raises, or 0
FirstRaise(app_config) ==
  IF Raises(app_config)
  THEN CHOOSE i \in DOMAIN app_config.default_paths :
         /\ app_config.default_paths[i] = Malformed
         /\ \A j \in 1..(i - 1) : app_config.default_paths[j] # Malformed
  ELSE 0

\* a discover() whose except clause returns what was found so far
discover_keeps_partial(app_config, env) ==
  IF Raises(app_config)
  THEN DiscoverFrom([app_config EXCEPT !.default_paths =
                       SubSeq(app_config.default_paths, 1,
                              FirstRaise(app_config) - 1)], env, 1)
  ELSE DiscoverFrom(app_config, env, 1)

\* discover(): the records of the candidate paths, or [] from the except
\* clause when the loop raised
discover(app_config, env) ==
  IF Raises(app_config) THEN <<>> ELSE DiscoverFrom(app_config, env, 1)

\* the environments of one discover() call: positions from the one that
\* raises on are never looked at
EnvsFor(app_config, path_envs) ==
  {env \in [DOMAIN app_config.default_paths -> path_envs] :
     \A i \in DOMAIN env :
       (FirstRaise(app_config) # 0 /\ i >= FirstRaise(app_config))
         => env[i] = [exists |-> FALSE, out |-> NotRun]}

\* the triple recorded for a candidate path whose probe was not run
NotRunResult == <<<<>>, <<>>, -1>>

\* the run_command results of one discover() call, by candidate position
ProbeResults(env) ==
  [i \in DOMAIN env |->
     IF env[i].exists THEN run_command(env[i].out) ELSE NotRunResult]

\* ---------------------------------------------------------- probe commands
\* a Python str is the sequence of its characters
Pipe == <<"|">>
Placeholder == <<"{", "p", "a", "t", "h", "}">>
DefaultFlag == <<"-", "-", "v", "e", "r", "s", "i", "o", "n">>

\* sub in s
Contains(s, sub) ==
  \E i \in 1..(Len(s) - Len(sub) + 1) : SubSeq(s, i, i + Len(sub) - 1) = sub

\* s.startswith(pre)
startswith(s, pre) == Len(s) >= Len(pre) /\ SubSeq(s, 1, Len(pre)) = pre

RECURSIVE replace(_, _, _)
\* s.replace(old, new): every occurrence, left to right
replace(s, old, new) ==
  IF Len(s) < Len(old) THEN s
  ELSE IF SubSeq(s, 1, Len(old)) = old
       THEN new \o replace(SubSeq(s, Len(old) + 1, Len(s)), old, new)
       ELSE <<Head(s)>> \o replace(Tail(s), old, new)

RECURSIVE join(_)
\* ' '.join(items)
join(items) ==
  IF items = <<>> THEN <<>>
  ELSE IF Len(items) = 1 THEN items[1]
  ELSE items[1] \o <<" ">> \o join(Tail(items))

RECURSIVE shlex_split(_)
\* shlex.split(s) of a string without quotes or backslashes: its
\* whitespace-separated tokens
shlex_split(s) ==
  IF s = <<>> THEN <<>>
  ELSE IF Head(s) = " " THEN shlex_split(Tail(s))
  ELSE LET n == CHOOSE k \in 1..Len(s) :
                  /\ \A j \in 1..k : s[j] # " "
                  /\ (k = Len(s) \/ s[k + 1] = " ")
       IN <<SubSeq(s, 1, n)>> \o shlex_split(SubSeq(s, n + 1, Len(s)))

\* a command or a version_command: a str, a list of str, or another JSON
\* value
Str(t) == [kind |-> "str", text |-> t, items |-> <<>>]
List(xs) == [kind |-> "list", text |-> <<>>, items |-> xs]
Other == [kind |-> "other", text |-> <<>>, items |-> <<>>]

\* version_command values a descriptor can carry ("--version" when absent)
VersionCommands ==
  { Str(DefaultFlag),
    Str(<<"-", "V">>),
    Str(<<"-", "v", "|", "g">>),
    Str(<<"a", " ", "-", "v">>),
    Str(<<"a", " ", "-", "v", " ", "-", "q">>),
    Str(<<"a">>),
    Str(<<>>),
    Str(<<" ", "a", " ">>),
    Str(Placeholder \o <<" ", "-", "v", " ", "|", " ", "g">>),
    Str(Placeholder \o <<" ", "|", " ">> \o Placeholder),
    Str(<<"a", " ", "-", "v", " ", "|", " ", "g">>),
    List(<<>>),
    List(<<<<"-", "v">>>>),
    List(<<<<"-", "c">>, <<"a", "|", "b">>>>),
    List(<<<<"-", "c">>, <<"a", " ", "b">>>>),
    Other }

\* candidate paths as strings: plain, with a space, with a pipe character
CmdPaths ==
  { <<"/", "a">>, <<"/", "a", " ", "b">>, <<"/", "a", "|", "b">>,
    <<"/", "{", "a", "}">> }

\* a command construction that keeps the program token of a token string
cmd_keeps_program(version_cmd, path) ==
  IF version_cmd.kind = "str" /\ Contains(version_cmd.text, Pipe)
  THEN IF Contains(version_cmd.text, Placeholder)
       THEN Str(replace(version_cmd.text, Placeholder, path))
       ELSE Str(version_cmd.text)
  ELSE IF version_cmd.kind = "str"
       THEN IF startswith(version_cmd.text, <<"-">>)
            THEN List(<<path, version_cmd.text>>)
            ELSE LET cmd_parts == shlex_split(version_cmd.text)
                 IN IF Len(cmd_parts) > 1
                    THEN List(<<path>> \o cmd_parts)
                    ELSE List(<<path, DefaultFlag>>)
       ELSE List(<<path>> \o version_cmd.items)

\* get_version, lines 406-420: the command built for a path
cmd(version_cmd, path) ==
  IF version_cmd.kind = "str" /\ Contains(version_cmd.text, Pipe)
  THEN IF Contains(version_cmd.text, Placeholder)
       THEN Str(replace(version_cmd.text, Placeholder, path))
       ELSE Str(version_cmd.text)
  ELSE IF version_cmd.kind = "str"
       THEN IF startswith(version_cmd.text, <<"-">>)
            THEN List(<<path, version_cmd.text>>)
            ELSE LET cmd_parts == shlex_split(version_cmd.text)
                 IN IF Len(cmd_parts) > 1
                    THEN List(<<path>> \o Tail(cmd_parts))
                    ELSE List(<<path, DefaultFlag>>)
       ELSE List(<<path>> \o version_cmd.items)

\* run_command, lines 360-363
cmd_str(c) == IF c.kind = "list" THEN join(c.items) ELSE c.text

\* run_command, line 365: the command goes through the shell
shell(c) == Contains(cmd_str(c), Pipe)

\* ------------------------------------------------------------- descriptors
PathLists == UNION {[1..n -> Paths] : n \in 0..MaxPaths}

Descriptors ==
  [name : Names, default_paths : PathLists, version_regex : Patterns]

\* ---------------------------------------------------------- agent inputs
DefaultInterval == 300
Cooldown == 60

Tokens == {"", "tok"}
BackendUrls == {"", "https://backend"}
Intervals == {DefaultInterval, -1}
Configs ==
  [backend_url : BackendUrls, service_token : Tokens,
   collection_interval : Intervals]

\* what a request of the session comes back with: an HTTP status, or a
\* requests exception
HttpStatuses == {200, 401, 403, 500}
Responses == [exc : {"none"}, status : HttpStatuses]
             \cup [exc : {"ConnectionError", "Timeout"}, status : {0}]

IsOk(resp) == resp.exc = "none" /\ resp.status = 200

\* host_id of the JSON body of a 200 registration response (data.get):
\* a value, an empty string, or None when the key is absent
HostIds == {"h1", "", None}

\* descriptors the backend serves: candidate paths alternate over Paths
AltPaths(n) ==
  [i \in 1..n |-> IF i % 2 = 1 THEN "/usr/sbin/nginx" ELSE "/opt/app/bin"]
ServedDescriptors ==
  {[name |-> nm, default_paths |-> AltPaths(n), version_regex |-> PatVPlus] :
     nm \in Names, n \in {1, MaxPaths}}
ServedLists == UNION {[1..n -> ServedDescriptors] : n \in 0..MaxPlugins}

\* what a probe does during a collection cycle
CycleOutcomes ==
  { [kind |-> "completed", stdout |-> <<"v", "1", "v", "2">>,
     stderr |-> <<"v">>, exit_code |-> 0],
    [kind |-> "completed", stdout |-> <<"v", "1", "v", "2">>,
     stderr |-> <<"v">>, exit_code |-> 1],
    TimeoutExpired }
CyclePathEnvs == [exists : {TRUE}, out : CycleOutcomes]
                 \cup {[exists |-> FALSE, out |-> NotRun]}

\* ------------------------------------------------------------------- state
VARIABLES
  d_config,      \* the descriptor of the plugin under discovery
  d_env,         \* what each candidate path was at discovery time
  d_apps,        \* the list discover() returned
  d_pc,          \* "call" before discover() runs, "done" after it
                 \* returned, "again" after a second call returned
  d_results,     \* what run_command returned for each candidate path
  d_apps2,       \* the list the second discover() call returned
  l_configs,     \* load_plugins: the descriptor list of the response
  l_pc,          \* load_plugins: "call" before it runs, "done" after
  a_envs,        \* discover_applications: the environment of each plugin run
  c_vcmd,        \* get_version: the version_command of the descriptor
  c_path,        \* get_version: the candidate path
  c_cmd,         \* get_version: the command handed to run_command
  c_exec,        \* run_command: how the command was executed
  c_result,      \* run_command: the triple it returned
  c_pc,          \* get_version: "build", "run" or "done"
  pc,            \* position of the main thread
  mode,          \* "daemon" or "once"
  config,        \* self.config
  running,       \* self.running
  host_id,       \* self.host_id
  auth_header,   \* session carries the Authorization header
  plugins,       \* self.plugins, in insertion order
  apps,          \* discovered_apps of the cycle in progress
  pidx,          \* index of the next plugin to run
  ridx,          \* index of the next record to report
  posted,        \* submissions of the cycle: <<record, response>>
  calls,         \* requests of the startup phase: <<operation, response>>
  probes,        \* number of probe commands executed in the cycle
  cycles,        \* number of collection cycles started
  slept,         \* seconds of the last completed sleep since the cycle began
  auth_result,   \* what authenticate() returned
  reg_result,    \* what register_host() returned
  report_result, \* what report_applications() returned in the cycle
  ret,           \* how the run ended
  stop_called,   \* stop() has been called
  int_at         \* position at which the last interrupt was delivered

discvars == <<d_config, d_env, d_apps, d_pc, d_results, d_apps2>>
loadvars == <<l_configs, l_pc>>
appsvars == <<a_envs>>
cmdvars == <<c_vcmd, c_path, c_cmd, c_exec, c_result, c_pc>>
\* the variables of the function-level specifications
dvars == <<discvars, loadvars, appsvars, cmdvars>>
avars == <<pc, mode, config, running, host_id, auth_header, plugins, apps,
           pidx, ridx, posted, calls, probes, cycles, slept, auth_result,
           reg_result, report_result, ret, stop_called, int_at>>
vars == <<dvars, avars>>

\* ------------------------------------------- specification of discover()
\* the agent before any run
AgentIdle ==
  /\ pc = "idle"
  /\ mode = "once"
  /\ config = [backend_url |-> "", service_token |-> "",
               collection_interval |-> DefaultInterval]
  /\ running = FALSE
  /\ host_id = None
  /\ auth_header = FALSE
  /\ plugins = <<>>
  /\ apps = <<>>
  /\ pidx = 1
  /\ ridx = 1
  /\ posted = <<>>
  /\ calls = <<>>
  /\ probes = 0
  /\ cycles = 0
  /\ slept = 0
  /\ auth_result = "none"
  /\ reg_result = "none"
  /\ report_result = "none"
  /\ ret = "none"
  /\ stop_called = FALSE
  /\ int_at = None

\* no load_plugins call under study
LoadIdle ==
  /\ l_configs = <<>>
  /\ l_pc = "idle"

\* no discover_applications call under study
AppsIdle == a_envs = <<>>

\* no get_version call under study
CmdIdle ==
  /\ c_vcmd = Str(<<>>)
  /\ c_path = <<>>
  /\ c_cmd = Str(<<>>)
  /\ c_exec = "none"
  /\ c_result = NotRunResult
  /\ c_pc = "idle"

\* a plugin built from any descriptor, before discover() is called
DInit ==
  /\ AgentIdle
  /\ LoadIdle
  /\ AppsIdle
  /\ CmdIdle
  /\ d_config \in Descriptors
  /\ d_env = <<>>
  /\ d_apps = <<>>
  /\ d_pc = "call"
  /\ d_results = <<>>
  /\ d_apps2 = <<>>

\* a discover() that consumes the candidate paths of the descriptor
DiscoverCall_consuming ==
  /\ d_pc = "call"
  /\ d_pc' = "done"
  /\ \E env \in EnvsFor(d_config, PathEnvs) :
       /\ d_env' = env
       /\ d_results' = ProbeResults(env)
       /\ d_apps' = discover(d_config, env)
  /\ d_config' = [d_config EXCEPT !.default_paths = <<>>]
  /\ UNCHANGED <<d_apps2, loadvars, appsvars, cmdvars, avars>>

\* discover() on the plugin, in any state of the filesystem and the commands
DiscoverCall ==
  /\ d_pc = "call"
  /\ d_pc' = "done"
  /\ \E env \in EnvsFor(d_config, PathEnvs) :
       /\ d_env' = env
       /\ d_results' = ProbeResults(env)
       /\ d_apps' = discover(d_config, env)
  /\ UNCHANGED <<d_config, d_apps2, loadvars, appsvars, cmdvars, avars>>

\* discover() called again on the same plugin, with the filesystem and the
\* commands behaving as in the first call
DiscoverAgain ==
  /\ d_pc = "done"
  /\ d_pc' = "again"
  /\ d_apps2' = discover(d_config, d_env)
  /\ UNCHANGED <<d_config, d_env, d_apps, d_results, loadvars, appsvars,
                 cmdvars, avars>>

DNext == DiscoverCall \/ DiscoverAgain

SpecDiscover == DInit /\ [][DNext]_vars

\* ------------------------------------------------------- VersionOpsAgent
\* a validate_config that forgets the service token
validate_config_url_only(cfg) == cfg.backend_url # ""

\* validate_config: both the backend URL and the service token are set
validate_config(cfg) == cfg.backend_url # "" /\ cfg.service_token # ""

\* a registry that keeps the first plugin of a name
PutPlugin_first_wins(reg, d) ==
  IF \E k \in 1..Len(reg) : reg[k].name = d.name
  THEN reg
  ELSE Append(reg, d)

\* self.plugins[plugin_name] = plugin on an insertion-ordered dict
PutPlugin(reg, d) ==
  IF \E k \in 1..Len(reg) : reg[k].name = d.name
  THEN [k \in 1..Len(reg) |-> IF reg[k].name = d.name THEN d ELSE reg[k]]
  ELSE Append(reg, d)

\* the name of a descriptor that has no "name" key
NoName == "<no name>"

RECURSIVE BuildPlugins(_, _, _)
\* the for loop of load_plugins over app_configs[i..]; config["name"] of a
\* descriptor without name raises KeyError outside the inner try, which
\* ends the loop in the outer except clause
BuildPlugins(reg, app_configs, i) ==
  IF i > Len(app_configs) THEN reg
  ELSE IF app_configs[i].name = NoName THEN reg
  ELSE BuildPlugins(PutPlugin(reg, app_configs[i]), app_configs, i + 1)

\* descriptor lists load_plugins can receive in a 200 response
LoadDescriptors ==
  [name : Names \cup {NoName},
   default_paths : {AltPaths(1), AltPaths(MaxPaths)},
   version_regex : Patterns]
LoadLists == UNION {[1..n -> LoadDescriptors] : n \in 0..MaxPlugins}

\* no discover() call under study
DiscoverIdle ==
  /\ d_config = [name |-> "nginx", default_paths |-> <<>>,
                 version_regex |-> DefaultPattern]
  /\ d_env = <<>>
  /\ d_apps = <<>>
  /\ d_pc = "idle"
  /\ d_results = <<>>
  /\ d_apps2 = <<>>

\* ------------------------------------------ specification of load_plugins
\* an agent with an empty registry that receives a descriptor list
LInit ==
  /\ AgentIdle
  /\ DiscoverIdle
  /\ AppsIdle
  /\ CmdIdle
  /\ l_configs \in LoadLists
  /\ l_pc = "call"

\* load_plugins on a 200 response whose body is l_configs
LoadCall ==
  /\ l_pc = "call"
  /\ l_pc' = "done"
  /\ plugins' = BuildPlugins(plugins, l_configs, 1)
  /\ UNCHANGED <<discvars, l_configs, appsvars, cmdvars, pc, mode, config,
                 running, host_id, auth_header, apps, pidx, ridx, posted,
                 calls, probes, cycles, slept, auth_result, reg_result,
                 report_result, ret, stop_called, int_at>>

LNext == LoadCall

SpecLoad == LInit /\ [][LNext]_vars

\* --------------------------------- specification of the probe command
\* a plugin with any version_command, about to probe an existing path
CInit ==
  /\ AgentIdle
  /\ DiscoverIdle
  /\ LoadIdle
  /\ AppsIdle
  /\ c_vcmd \in VersionCommands
  /\ c_path \in CmdPaths
  /\ c_cmd = Str(<<>>)
  /\ c_exec = "none"
  /\ c_result = NotRunResult
  /\ c_pc = "call"

\* get_version up to the return of run_command: the command is built and
\* run, through the shell or as an argument vector; a version_command that
\* is neither str nor list raises TypeError at line 420 and nothing is run
GetVersionCall ==
  /\ c_pc = "call"
  /\ c_pc' = "done"
  /\ IF c_vcmd.kind = "other"
     THEN UNCHANGED <<c_cmd, c_exec, c_result>>
     ELSE /\ c_cmd' = cmd(c_vcmd, c_path)
          /\ c_exec' = IF shell(cmd(c_vcmd, c_path)) THEN "shell" ELSE "argv"
          /\ \E out \in CycleOutcomes : c_result' = run_command(out)
  /\ UNCHANGED <<discvars, loadvars, appsvars, c_vcmd, c_path, avars>>

CNext == GetVersionCall

SpecCommand == CInit /\ [][CNext]_vars

\* ---------------------------------- specification of discover_applications
\* candidate paths whose last entry is not a string
BadPaths(n) == [i \in 1..n |-> IF i = n THEN Malformed ELSE AltPaths(n)[i]]

\* descriptors of the registry, some of which make discover() raise
AppsDescriptors ==
  {[name |-> nm, default_paths |-> ps, version_regex |-> PatVPlus] :
     nm \in Names, ps \in {AltPaths(1), AltPaths(MaxPaths), BadPaths(MaxPaths)}}
AppsLists == UNION {[1..n -> AppsDescriptors] : n \in 0..MaxPlugins}

\* an agent about to load its registry and run discover_applications
AInit ==
  /\ AgentIdle
  /\ DiscoverIdle
  /\ AppsIdle
  /\ CmdIdle
  /\ l_configs \in AppsLists
  /\ l_pc = "call"

\* one iteration of the for loop of discover_applications: the next plugin
\* of the registry runs and its result is appended
AppsStep ==
  /\ l_pc = "done"
  /\ pidx <= Len(plugins)
  /\ \E env \in EnvsFor(plugins[pidx], CyclePathEnvs) :
       /\ a_envs' = Append(a_envs, env)
       /\ apps' = apps \o discover(plugins[pidx], env)
  /\ pidx' = pidx + 1
  /\ UNCHANGED <<discvars, loadvars, cmdvars, pc, mode, config, running,
                 host_id, auth_header, plugins, ridx, posted, calls, probes,
                 cycles, slept, auth_result, reg_result, report_result, ret,
                 stop_called, int_at>>

ANext == LoadCall \/ AppsStep

SpecApps == AInit /\ [][ANext]_vars

\* number of os.path.exists hits of one discover() call, each of which
\* runs the probe command once
ProbesRun(env) == Cardinality({i \in DOMAIN env : env[i].exists})

\* Python truthiness of self.host_id
HasHostId(h) == h # None /\ h # ""

Init ==
  /\ d_config = [name |-> "nginx", default_paths |-> <<>>,
                 version_regex |-> DefaultPattern]
  /\ d_env = <<>>
  /\ d_apps = <<>>
  /\ d_pc = "idle"
  /\ d_results = <<>>
  /\ d_apps2 = <<>>
  /\ LoadIdle
  /\ AppsIdle
  /\ CmdIdle
  /\ mode \in {"daemon", "once"}
  /\ config \in Configs
  /\ pc \in {"cmd_run", "run"}
  /\ pc = "run" => config.backend_url # ""
  /\ running = FALSE
  /\ host_id = None
  /\ auth_header = FALSE
  /\ plugins = <<>>
  /\ apps = <<>>
  /\ pidx = 1
  /\ ridx = 1
  /\ posted = <<>>
  /\ calls = <<>>
  /\ probes = 0
  /\ cycles = 0
  /\ slept = 0
  /\ auth_result = "none"
  /\ reg_result = "none"
  /\ report_result = "none"
  /\ ret = "none"
  /\ stop_called = FALSE
  /\ int_at = None

\* the run ends: run_once / run_daemon / cmd_run returns code
Return(code) ==
  /\ pc' = "exited"
  /\ ret' = code

\* cmd_run: validate the merged configuration, then dispatch on --daemon
CmdRun ==
  /\ pc = "cmd_run"
  /\ IF validate_config(config)
     THEN pc' = "run" /\ ret' = ret
     ELSE Return("1")
  /\ UNCHANGED <<dvars, mode, config, running, host_id, auth_header, plugins,
                 apps, pidx, ridx, posted, calls, probes, cycles, slept,
                 auth_result, reg_result, report_result, stop_called, int_at>>

\* entry of run_daemon (self.running = True) or of run_once
RunStart ==
  /\ pc = "run"
  /\ pc' = "auth"
  /\ running' = IF mode = "daemon" THEN TRUE ELSE running
  /\ UNCHANGED <<dvars, mode, config, host_id, auth_header, plugins, apps,
                 pidx, ridx, posted, calls, probes, cycles, slept,
                 auth_result, reg_result, report_result, ret, stop_called,
                 int_at>>

\* authenticate() that only rejects 401
AuthAccepts_only401(resp) == resp.exc = "none" /\ resp.status # 401

\* authenticate() returns True for this response
AuthAccepts(resp) == IsOk(resp)

\* authenticate(), and the caller's return 1 when it fails
Authenticate ==
  /\ pc = "auth"
  /\ IF config.service_token = ""
     THEN /\ auth_result' = "fail"
          /\ Return("1")
          /\ UNCHANGED <<auth_header, calls>>
     ELSE /\ auth_header' = TRUE
          /\ \E resp \in Responses :
               /\ calls' = Append(calls, <<"GET auth", resp>>)
               /\ IF AuthAccepts(resp)
                  THEN /\ auth_result' = "ok"
                       /\ pc' = "load"
                       /\ ret' = ret
                  ELSE /\ auth_result' = "fail"
                       /\ Return("1")
  /\ UNCHANGED <<dvars, mode, config, running, host_id, plugins, apps, pidx,
                 ridx, posted, probes, cycles, slept, reg_result,
                 report_result, stop_called, int_at>>

\* a load_plugins whose failure ends the run with 1
LoadPlugins_fatal ==
  /\ pc = "load"
  /\ \/ \E app_configs \in ServedLists :
          /\ calls' = Append(calls, <<"GET configs",
                                      [exc |-> "none", status |-> 200]>>)
          /\ plugins' = BuildPlugins(plugins, app_configs, 1)
          /\ pc' = "register"
          /\ ret' = ret
     \/ \E resp \in Responses \cup {[exc |-> "JSONDecodeError", status |-> 200]} :
          /\ ~IsOk(resp)
          /\ calls' = Append(calls, <<"GET configs", resp>>)
          /\ plugins' = plugins
          /\ Return("1")
  /\ UNCHANGED <<dvars, mode, config, running, host_id, auth_header, apps,
                 pidx, ridx, posted, probes, cycles, slept, auth_result,
                 reg_result, report_result, stop_called, int_at>>

\* load_plugins(): a 200 response with a descriptor list builds the
\* registry; anything else leaves it as it is
LoadPlugins ==
  /\ pc = "load"
  /\ pc' = "register"
  /\ \/ \E app_configs \in ServedLists :
          /\ calls' = Append(calls, <<"GET configs",
                                      [exc |-> "none", status |-> 200]>>)
          /\ plugins' = BuildPlugins(plugins, app_configs, 1)
     \/ \E resp \in Responses \cup {[exc |-> "JSONDecodeError", status |-> 200]} :
          /\ ~IsOk(resp)
          /\ calls' = Append(calls, <<"GET configs", resp>>)
          /\ plugins' = plugins
  /\ UNCHANGED <<dvars, mode, config, running, host_id, auth_header, apps,
                 pidx, ridx, posted, probes, cycles, slept, auth_result,
                 reg_result, report_result, ret, stop_called, int_at>>

\* the value register_host stores for a 200 response with this body
StoredHostId(body_host_id) == body_host_id

\* register_host(), and the caller's return 1 when it fails
RegisterHost ==
  /\ pc = "register"
  /\ \/ \E h \in HostIds :
          /\ calls' = Append(calls, <<"POST register",
                                      [exc |-> "none", status |-> 200]>>)
          /\ host_id' = StoredHostId(h)
          /\ reg_result' = "ok"
          /\ pc' = IF mode = "daemon" THEN "loop" ELSE "cycle"
          /\ ret' = ret
     \/ \E resp \in Responses \cup {[exc |-> "JSONDecodeError", status |-> 200]} :
          /\ ~IsOk(resp)
          /\ calls' = Append(calls, <<"POST register", resp>>)
          /\ host_id' = host_id
          /\ reg_result' = "fail"
          /\ Return("1")
  /\ UNCHANGED <<dvars, mode, config, running, auth_header, plugins, apps,
                 pidx, ridx, posted, probes, cycles, slept, auth_result,
                 report_result, stop_called, int_at>>

\* while self.running: enter the try block, or leave the loop and return 0
LoopCheck ==
  /\ pc = "loop"
  /\ IF running
     THEN /\ cycles < MaxCycles
          /\ pc' = "cycle"
          /\ ret' = ret
     ELSE Return("0")
  /\ UNCHANGED <<dvars, mode, config, running, host_id, auth_header, plugins,
                 apps, pidx, ridx, posted, calls, probes, cycles, slept,
                 auth_result, reg_result, report_result, stop_called, int_at>>

\* a cycle that reloads the registry and forgets the host id
CycleStart_resetting ==
  /\ pc = "cycle"
  /\ pc' = "discover"
  /\ cycles' = cycles + 1
  /\ apps' = <<>>
  /\ pidx' = 1
  /\ ridx' = 1
  /\ posted' = <<>>
  /\ slept' = 0
  /\ report_result' = "none"
  /\ probes' = 0
  /\ plugins' = <<>>
  /\ host_id' = None
  /\ UNCHANGED <<dvars, mode, config, running, auth_header,
                 calls, auth_result, reg_result, ret, stop_called, int_at>>

\* collection_cycle() begins: discover_applications starts with no records
CycleStart ==
  /\ pc = "cycle"
  /\ pc' = "discover"
  /\ cycles' = cycles + 1
  /\ apps' = <<>>
  /\ pidx' = 1
  /\ ridx' = 1
  /\ posted' = <<>>
  /\ slept' = 0
  /\ probes' = 0
  /\ report_result' = "none"
  /\ UNCHANGED <<dvars, mode, config, running, host_id, auth_header, plugins,
                 calls, auth_result, reg_result, ret, stop_called, int_at>>

\* one iteration of discover_applications: run the next plugin
DiscoverPlugin ==
  /\ pc = "discover"
  /\ pidx <= Len(plugins)
  /\ \E env \in [1..Len(plugins[pidx].default_paths) -> CyclePathEnvs] :
       /\ apps' = apps \o discover(plugins[pidx], env)
       /\ probes' = probes + ProbesRun(env)
  /\ pidx' = pidx + 1
  /\ UNCHANGED <<dvars, pc, mode, config, running, host_id, auth_header,
                 plugins, ridx, posted, calls, cycles, slept, auth_result,
                 reg_result, report_result, ret, stop_called, int_at>>

\* collection_cycle() is over: one-shot mode returns 0, the daemon goes on
\* to the interval sleep
CycleEnd ==
  IF mode = "daemon" THEN pc' = "sleep" /\ ret' = ret ELSE Return("0")

\* report_applications() without the host id check
ReportAdmits_unchecked(h) == TRUE

\* report_applications() goes past the host id check
ReportAdmits(h) == HasHostId(h)

\* discover_applications returned: report when there is something to report
ReportStart ==
  /\ pc = "discover"
  /\ pidx > Len(plugins)
  /\ IF apps = <<>>
     THEN CycleEnd /\ report_result' = report_result
     ELSE IF ~ReportAdmits(host_id)
          THEN CycleEnd /\ report_result' = "False"
          ELSE pc' = "report" /\ ret' = ret /\ report_result' = report_result
  /\ UNCHANGED <<dvars, mode, config, running, host_id, auth_header, plugins,
                 apps, pidx, ridx, posted, calls, probes, cycles, slept,
                 auth_result, reg_result, stop_called, int_at>>

\* what the submission of one record comes back with
ReportResponses == [exc : {"none"}, status : {200, 401, 500}]
                   \cup {[exc |-> "ConnectionError", status |-> 0]}

\* a for loop that gives up at the first record the server refuses
ReportContinues_until_refused(resp) == IsOk(resp)

\* the for loop of report_applications goes on after this response
ReportContinues(resp) == resp.exc = "none"

\* one iteration of the for loop of report_applications
ReportOne ==
  /\ pc = "report"
  /\ ridx <= Len(apps)
  /\ \E resp \in ReportResponses :
       /\ posted' = Append(posted, <<apps[ridx], resp, host_id>>)
       /\ IF ~ReportContinues(resp)
          THEN /\ report_result' = "False"
               /\ ridx' = ridx
               /\ CycleEnd
          ELSE /\ ridx' = ridx + 1
               /\ IF ridx = Len(apps)
                  THEN report_result' = "True" /\ CycleEnd
                  ELSE report_result' = report_result /\ pc' = pc /\ ret' = ret
  /\ UNCHANGED <<dvars, mode, config, running, host_id, auth_header, plugins,
                 apps, pidx, calls, probes, cycles, slept, auth_result,
                 reg_result, stop_called, int_at>>

\* time.sleep raises ValueError for a negative length
SleepRaises(secs) == secs < 0

\* a daemon loop without the except Exception clause
IntervalSleep_uncaught ==
  /\ pc = "sleep"
  /\ IF SleepRaises(config.collection_interval)
     THEN Return("ValueError") /\ slept' = slept
     ELSE pc' = "loop" /\ slept' = config.collection_interval /\ ret' = ret
  /\ UNCHANGED <<dvars, mode, config, running, host_id, auth_header, plugins,
                 apps, pidx, ridx, posted, calls, probes, cycles,
                 auth_result, reg_result, report_result, stop_called,
                 int_at>>

\* time.sleep(collection_interval); an exception lands in except Exception
IntervalSleep ==
  /\ pc = "sleep"
  /\ IF SleepRaises(config.collection_interval)
     THEN pc' = "cooldown" /\ slept' = slept
     ELSE pc' = "loop" /\ slept' = config.collection_interval
  /\ ret' = ret
  /\ UNCHANGED <<dvars, mode, config, running, host_id, auth_header, plugins,
                 apps, pidx, ridx, posted, calls, probes, cycles,
                 auth_result, reg_result, report_result, stop_called,
                 int_at>>

\* except Exception: time.sleep(60)
CooldownSleep ==
  /\ pc = "cooldown"
  /\ pc' = "loop"
  /\ slept' = Cooldown
  /\ UNCHANGED <<dvars, mode, config, running, host_id, auth_header, plugins,
                 apps, pidx, ridx, posted, calls, probes, cycles,
                 auth_result, reg_result, report_result, ret, stop_called,
                 int_at>>

\* positions inside the try block of the daemon loop
InTry(m, p) == m = "daemon" /\ p \in {"cycle", "discover", "report", "sleep"}

\* KeyboardInterrupt raised in the main thread: caught by the except clause
\* of the daemon loop when inside its try block, propagating otherwise
Interrupt ==
  /\ pc \in {"auth", "load", "register", "loop", "cycle", "discover",
             "report", "sleep", "cooldown"}
  /\ int_at' = pc
  /\ IF InTry(mode, pc)
     THEN pc' = "loop" /\ running' = FALSE /\ ret' = ret
     ELSE Return("KeyboardInterrupt") /\ running' = running
  /\ UNCHANGED <<dvars, mode, config, host_id, auth_header, plugins, apps,
                 pidx, ridx, posted, calls, probes, cycles, slept,
                 auth_result, reg_result, report_result, stop_called>>

\* stop(), called from another thread or a signal handler
Stop ==
  /\ pc \notin {"cmd_run", "exited"}
  /\ running' = FALSE
  /\ stop_called' = TRUE
  /\ UNCHANGED <<dvars, pc, mode, config, host_id, auth_header, plugins, apps,
                 pidx, ridx, posted, calls, probes, cycles, slept,
                 auth_result, reg_result, report_result, ret, int_at>>

Next ==
  \/ CmdRun
  \/ RunStart
  \/ Authenticate
  \/ LoadPlugins
  \/ RegisterHost
  \/ LoopCheck
  \/ CycleStart
  \/ DiscoverPlugin
  \/ ReportStart
  \/ ReportOne
  \/ IntervalSleep
  \/ CooldownSleep
  \/ Interrupt
  \/ Stop

Spec == Init /\ [][Next]_vars

\* ================================================================ claims
\* ---- discover() (SpecDiscover)
RanOk(e) == e.exists /\ e.out.kind = "completed" /\ e.out.exit_code = 0

PatternFound(pattern, e) ==
  \/ MatchStarts(pattern, e.out.stdout) # {}
  \/ MatchStarts(pattern, e.out.stderr) # {}

\* candidate positions whose path existed, whose probe returned 0 and whose
\* output holds a match of the pattern
Qualifying ==
  {i \in DOMAIN d_env : RanOk(d_env[i]) /\ PatternFound(d_config.version_regex, d_env[i])}

RecordsAt(p) == {k \in DOMAIN d_apps : d_apps[k].path = p}
QualifyingAt(p) == {i \in Qualifying : d_config.default_paths[i] = p}

\* C1: every record of a discover() result belongs to a candidate path that
\* existed, whose probe returned exit code 0 and whose stdout or stderr held
\* a match of the pattern; a path has no more records than it has such
\* probes, so a probe with a non-zero exit code never yields a record.
C1_RecordsOnlyFromSuccessfulProbes ==
  d_pc = "done" =>
    \A k \in DOMAIN d_apps :
      /\ QualifyingAt(d_apps[k].path) # {}
      /\ Cardinality(RecordsAt(d_apps[k].path))
           <= Cardinality(QualifyingAt(d_apps[k].path))

C1_Witness ==
  /\ d_pc = "done"
  /\ d_apps # <<>>
  /\ \E i \in DOMAIN d_env :
       /\ d_env[i].exists
       /\ d_env[i].out.kind = "completed"
       /\ d_env[i].out.exit_code # 0
       /\ PatternFound(d_config.version_regex, d_env[i])
       /\ RecordsAt(d_config.default_paths[i]) = {}

\* the version the first match gives: group 1 of the first match in stdout,
\* or of the first match in stderr when stdout has none
FirstMatchVersion(pattern, out) ==
  LET so == MatchStarts(pattern, out.stdout)
      se == MatchStarts(pattern, out.stderr)
      first(S) == CHOOSE i \in S : \A j \in S : i <= j
  IN IF so # {} THEN GroupAt(pattern, out.stdout, first(so))
     ELSE GroupAt(pattern, out.stderr, first(se))

\* C2: every existing candidate path whose probe returns 0 with output that
\* matches the pattern gets exactly one record (one per such position of the
\* list), with the descriptor's name, method dynamic_plugin and the version
\* of the first match, stdout before stderr.
C2_OneRecordPerMatch ==
  d_pc = "done" =>
    \A i \in Qualifying :
      LET p == d_config.default_paths[i]
      IN /\ Cardinality(RecordsAt(p)) = Cardinality(QualifyingAt(p))
         /\ \E k \in DOMAIN d_apps :
              d_apps[k] = ApplicationInfo(d_config.name,
                            FirstMatchVersion(d_config.version_regex, d_env[i].out),
                            p, "dynamic_plugin")

\* ---- the agent run (Spec)
Last(seq) == seq[Len(seq)]
PostedRecords == [k \in DOMAIN posted |-> posted[k][1]]
TransportErrorIn(log) == \E k \in DOMAIN log : log[k][2].exc # "none"
RefusedIn(log) ==
  \E k \in DOMAIN log : log[k][2].exc = "none" /\ log[k][2].status # 200

\* C3: with a host id set, report_applications POSTs every record once, in
\* list order, whatever status each submission gets, and returns True; it
\* returns False only when the host id is missing or a request raised.
C3_ReportBestEffort ==
  /\ pc = "report" => PostedRecords = SubSeq(apps, 1, ridx - 1)
  /\ report_result = "True" =>
       /\ HasHostId(host_id)
       /\ PostedRecords = apps
       /\ ~TransportErrorIn(posted)
  /\ report_result = "False" =>
       \/ ~HasHostId(host_id) /\ posted = <<>>
       \/ posted # <<>> /\ Last(posted)[2].exc # "none"
  /\ (pc \in {"sleep", "exited"} /\ apps # <<>> /\ HasHostId(host_id)
        /\ ~TransportErrorIn(posted) /\ int_at = None)
       => report_result = "True"

C3_Witness ==
  /\ report_result = "True"
  /\ Len(posted) = 3
  /\ posted[2][2].status = 500
  /\ posted[1][2].status = 200
  /\ posted[3][2].status = 200

StartupCall(op) == {k \in DOMAIN calls : calls[k][1] = op}
AuthRefused ==
  \/ auth_result = "fail"
  \/ \E k \in StartupCall("GET auth") : ~IsOk(calls[k][2])

\* C4: when authentication fails the run returns 1 and has made, beyond the
\* one authentication probe, no config fetch, no registration, no probe
\* execution and no submission, in run_once and in run_daemon.
C4_AuthFailureIsTerminal ==
  AuthRefused =>
    /\ pc = "exited"
    /\ ret = "1"
    /\ Len(calls) <= 1
    /\ \A k \in DOMAIN calls : calls[k][1] = "GET auth"
    /\ probes = 0
    /\ cycles = 0
    /\ posted = <<>>
    /\ plugins = <<>>
    /\ host_id = None

C4_Witness ==
  /\ mode = "daemon"
  /\ pc = "exited"
  /\ calls = <<<<"GET auth", [exc |-> "none", status |-> 401]>>>>

RegistrationFailed ==
  \E k \in StartupCall("POST register") : ~IsOk(calls[k][2])
RegistrationSucceeded ==
  \E k \in StartupCall("POST register") : IsOk(calls[k][2])

\* C5: a record is POSTed only after the registration of this run succeeded
\* and only with a host id set; when registration fails the run returns 1
\* with no discovery run and no record submitted.
C5_ReportOnlyWhenRegistered ==
  /\ \A k \in DOMAIN posted :
       /\ RegistrationSucceeded
       /\ HasHostId(posted[k][3])
       /\ posted[k][3] = host_id
  /\ RegistrationFailed =>
       /\ pc = "exited"
       /\ ret = "1"
       /\ cycles = 0
       /\ probes = 0
       /\ posted = <<>>

C5_Witness ==
  /\ posted # <<>>
  /\ cycles = 2

\* C6: when register_host returns True the host id is set (neither None nor
\* empty), so that the report of the cycle is not rejected for a missing
\* host id; when it returns False the host id is unchanged.
C6_RegisteredHasHostId ==
  /\ reg_result = "ok" => HasHostId(host_id)
  /\ reg_result = "ok" /\ report_result = "False" => posted # <<>>
  /\ reg_result = "fail" => host_id = None

\* C7: in daemon mode, a cycle that hit a transport error is followed by the
\* 60 second cooldown, not by a sleep of the collection interval.
C7_TransportErrorCoolsDown ==
  (mode = "daemon" /\ TransportErrorIn(posted) /\ slept # 0)
    => slept = Cooldown

\* C8: once the daemon is authenticated and registered, it ends only after
\* stop() or an interrupt: no failure inside a cycle (failed probe, refused
\* or failed submission, error of the interval sleep) ends run_daemon.
C8_DaemonSurvivesCycleFailures ==
  (mode = "daemon" /\ RegistrationSucceeded /\ pc = "exited")
    => (stop_called \/ int_at # None)

C8_Witness ==
  /\ mode = "daemon"
  /\ cycles = 2
  /\ pc = "report"
  /\ config.collection_interval < 0
  /\ RefusedIn(posted)
  /\ ~stop_called
  /\ int_at = None

\* C9: an interrupt delivered while the daemon loop runs (in a cycle, in the
\* interval sleep or in the cooldown sleep) never propagates: run_daemon
\* returns 0.
C9_InterruptEndsGracefully ==
  (mode = "daemon" /\ int_at \in {"cycle", "discover", "report", "sleep", "cooldown"})
    => /\ ret # "KeyboardInterrupt"
       /\ pc = "exited" => ret = "0"

LoopPositions == {"loop", "cycle", "discover", "report", "sleep", "cooldown"}

\* the sleep the loop completes after a cycle: the collection interval, or
\* the cooldown when time.sleep rejects the interval
SleepAfterCycle(cfg) ==
  IF cfg.collection_interval < 0 THEN Cooldown ELSE cfg.collection_interval

FetchFailed == \E k \in StartupCall("GET configs") : ~IsOk(calls[k][2])

\* C11: when the config fetch fails (non-200, transport exception, body
\* that does not parse) the registry is empty and the run goes on: it
\* registers the host and runs the cycle with no plugin, so that no probe is
\* executed and no record submitted; a one-shot run still returns 0.
C11_FetchFailureDegrades ==
  /\ FetchFailed =>
       /\ plugins = <<>>
       /\ apps = <<>>
       /\ probes = 0
       /\ posted = <<>>
  /\ (FetchFailed /\ pc = "exited" /\ int_at = None) =>
       (RegistrationSucceeded \/ RegistrationFailed)
  /\ (FetchFailed /\ pc = "exited" /\ int_at = None /\ mode = "once"
        /\ RegistrationSucceeded) =>
       (ret = "0" /\ cycles = 1)

C11_Witness ==
  /\ mode = "once"
  /\ Len(calls) = 3
  /\ calls[2] = <<"GET configs", [exc |-> "JSONDecodeError", status |-> 200]>>
  /\ pc = "exited"
  /\ ret = "0"
  /\ cycles = 1

TransportErrors == {"ConnectionError", "Timeout"}
TransportErrorInRun ==
  \/ \E k \in StartupCall("GET auth") \cup StartupCall("POST register") :
       calls[k][2].exc \in TransportErrors
  \/ \E k \in DOMAIN posted : posted[k][2].exc \in TransportErrors

\* C16: in one-shot mode a transport error during authentication, host
\* registration or record submission makes run_once return a non-zero code.
C16_TransportErrorFatalOnce ==
  (mode = "once" /\ pc = "exited" /\ int_at = None /\ TransportErrorInRun)
    => ret # "0"

ConfigMissing(cfg) == cfg.backend_url = "" \/ cfg.service_token = ""
NoNetworkActivity ==
  /\ calls = <<>>
  /\ posted = <<>>
  /\ probes = 0
  /\ cycles = 0
  /\ auth_result = "none"
  /\ reg_result = "none"

\* C17: cmd_run started with the backend URL or the service token missing
\* returns 1 at once, in daemon and in one-shot mode: no authentication
\* probe, config fetch, registration or submission has been or is ever sent.
C17_MissingConfigNoNetwork ==
  /\ [](pc = "cmd_run" => NoNetworkActivity)
  /\ [][(pc = "cmd_run" /\ ConfigMissing(config)) =>
          (pc' = "exited" /\ ret' = "1" /\ NoNetworkActivity')]_vars
  /\ [][pc # "exited"]_vars

C17_Witness ==
  /\ mode = "daemon"
  /\ config.backend_url = ""
  /\ config.service_token = "tok"
  /\ pc = "exited"
  /\ ret = "1"
  /\ NoNetworkActivity

\* ---- load_plugins (SpecLoad)
WellFormed(d) == d.name # NoName
HasPlugin(nm) == \E k \in DOMAIN plugins : plugins[k].name = nm

\* C12: a descriptor without name is skipped alone: every well-formed
\* descriptor of the list, before and after it, has its plugin in the
\* registry.
C12_MalformedSkippedAlone ==
  l_pc = "done" =>
    \A i \in DOMAIN l_configs :
      WellFormed(l_configs[i]) => HasPlugin(l_configs[i].name)

LastWithName(nm) ==
  CHOOSE i \in DOMAIN l_configs :
    /\ l_configs[i].name = nm
    /\ \A j \in DOMAIN l_configs : l_configs[j].name = nm => j <= i

\* C13: after load_plugins on well-formed descriptors the registry holds
\* one plugin per distinct name and nothing else, and the plugin of a name
\* is the one built from the last descriptor of that name.
C13_LastDescriptorWins ==
  (l_pc = "done" /\ \A i \in DOMAIN l_configs : WellFormed(l_configs[i])) =>
    /\ \A i \in DOMAIN l_configs :
         /\ Cardinality({k \in DOMAIN plugins :
                           plugins[k].name = l_configs[i].name}) = 1
         /\ \E k \in DOMAIN plugins :
              plugins[k] = l_configs[LastWithName(l_configs[i].name)]
    /\ \A k \in DOMAIN plugins :
         \E i \in DOMAIN l_configs : l_configs[i].name = plugins[k].name

C13_Witness ==
  /\ l_pc = "done"
  /\ Len(l_configs) = 2
  /\ l_configs[1].name = l_configs[2].name
  /\ l_configs[1] # l_configs[2]
  /\ WellFormed(l_configs[1])
  /\ plugins = <<l_configs[2]>>

\* ---- discover() once more (SpecDiscover)
RECURSIVE SucceedingFrom(_)
\* the records of the succeeding candidate positions i.., in list order
SucceedingFrom(i) ==
  IF i > Len(d_env) THEN <<>>
  ELSE (IF i \in Qualifying
        THEN <<ApplicationInfo(d_config.name,
                 FirstMatchVersion(d_config.version_regex, d_env[i].out),
                 d_config.default_paths[i], "dynamic_plugin")>>
        ELSE <<>>) \o SucceedingFrom(i + 1)

\* C14: the result of discover() is exactly the records of the succeeding
\* candidate paths (existing, probe exit 0, pattern matched), in list order,
\* whatever the other paths do; no probe is run for a path that does not
\* exist.
C14_SucceedingPathsInOrder ==
  d_pc = "done" =>
    /\ d_apps = SucceedingFrom(1)
    /\ \A i \in DOMAIN d_env :
         ~d_env[i].exists => d_results[i] = NotRunResult

ExecFailed(i) == d_env[i].exists /\ d_env[i].out.kind \in {"timeout", "oserror"}

\* C19: run_command turns a timeout into exactly ("", "Command timeout", 1)
\* and an OS error into (empty stdout, a non-empty stderr, a non-zero exit
\* code); the path of such a probe gets no record from it, and the paths
\* after it are still probed and get their records.
C19_RunCommandNeverRaises ==
  d_pc = "done" =>
    \A i \in DOMAIN d_env :
      ExecFailed(i) =>
        /\ d_env[i].out.kind = "timeout"
             => d_results[i] = <<<<>>, <<"Command timeout">>, 1>>
        /\ d_results[i][1] = <<>>
        /\ d_results[i][2] # <<>>
        /\ d_results[i][3] # 0
        /\ Cardinality(RecordsAt(d_config.default_paths[i]))
             <= Cardinality({j \in DOMAIN d_env :
                               /\ d_config.default_paths[j] = d_config.default_paths[i]
                               /\ ~ExecFailed(j)})
        /\ \A j \in Qualifying :
             (j > i /\ FirstMatchVersion(d_config.version_regex, d_env[j].out) # <<>>)
               => \E k \in DOMAIN d_apps :
                    /\ d_apps[k].path = d_config.default_paths[j]
                    /\ d_apps[k].version =
                         FirstMatchVersion(d_config.version_regex, d_env[j].out)

C19_Witness ==
  /\ d_pc = "done"
  /\ Len(d_env) = 2
  /\ d_env[1].exists
  /\ d_env[1].out.kind = "timeout"
  /\ d_results[1] = <<<<>>, <<"Command timeout">>, 1>>
  /\ Len(d_apps) = 1
  /\ d_apps[1].path = d_config.default_paths[2]
  /\ d_config.default_paths[1] # d_config.default_paths[2]

RECURSIVE ResultsUpTo(_)
\* what the first n plugins of the registry contribute, in registry order:
\* nothing for a plugin that raised, its records otherwise
ResultsUpTo(n) ==
  IF n = 0 THEN <<>>
  ELSE ResultsUpTo(n - 1) \o
         (IF Raises(plugins[n]) THEN <<>>
          ELSE DiscoverFrom(plugins[n], a_envs[n], 1))

\* C15: a plugin in which an exception is raised contributes nothing, also
\* not the records of its earlier candidate paths; every plugin of the
\* registry is run, and the result of discover_applications is the
\* concatenation of the plugins' results in registry order.
C15_PluginFailureIsolated ==
  l_pc = "done" =>
    /\ Len(a_envs) = pidx - 1
    /\ apps = ResultsUpTo(pidx - 1)

C15_Witness ==
  /\ l_pc = "done"
  /\ Len(plugins) = 2
  /\ pidx = 3
  /\ Raises(plugins[1])
  /\ Len(plugins[1].default_paths) > 1
  /\ RanOk(a_envs[1][1])
  /\ Len(apps) = 1
  /\ apps[1].name = plugins[2].name

\* ---- the probe command (SpecCommand)
\* the version probe is a pipeline template: a string with a pipe character
IsPipeline(version_cmd) ==
  version_cmd.kind = "str" /\ Contains(version_cmd.text, Pipe)

\* C18: a probe command goes through the shell exactly when the version
\* probe is a pipeline template; a command built as an argument vector is
\* never run through the shell, whatever the path and the arguments hold.
C18_ShellOnlyForPipelines ==
  (c_pc = "done" /\ c_exec # "none") =>
    (c_exec = "shell" <=> IsPipeline(c_vcmd))

RECURSIVE Substituted(_)
\* the template t with every {path} replaced by the candidate path
Substituted(t) ==
  IF ~Contains(t, Placeholder) THEN t
  ELSE LET i == CHOOSE k \in 1..Len(t) :
                  /\ SubSeq(t, k, k + Len(Placeholder) - 1) = Placeholder
                  /\ \A j \in 1..(k - 1) :
                       SubSeq(t, j, j + Len(Placeholder) - 1) # Placeholder
       IN SubSeq(t, 1, i - 1) \o c_path
            \o Substituted(SubSeq(t, i + Len(Placeholder), Len(t)))

\* C21: the command get_version builds for an existing path is the
\* template with every {path} replaced (verbatim without {path}) for a
\* pipeline template, [path, flag] for a string starting with "-",
\* [path] + tokens[1:] for another string of more than one token,
\* [path, "--version"] for one of at most one token, and [path] + list for
\* an argument list.
C21_CommandShapes ==
  (c_pc = "done" /\ c_vcmd.kind # "other") =>
    IF IsPipeline(c_vcmd)
    THEN c_cmd = Str(Substituted(c_vcmd.text))
    ELSE IF c_vcmd.kind = "str"
         THEN IF c_vcmd.text # <<>> /\ c_vcmd.text[1] = "-"
              THEN c_cmd = List(<<c_path, c_vcmd.text>>)
              ELSE LET tokens == shlex_split(c_vcmd.text)
                   IN IF Len(tokens) > 1
                      THEN c_cmd = List(<<c_path>> \o SubSeq(tokens, 2, Len(tokens)))
                      ELSE c_cmd = List(<<c_path, DefaultFlag>>)
         ELSE c_cmd = List(<<c_path>> \o c_vcmd.items)

C21_Witness ==
  /\ c_pc = "done"
  /\ c_vcmd = Str(<<"a", " ", "-", "v", " ", "-", "q">>)
  /\ c_path = <<"/", "a", " ", "b">>
  /\ c_cmd = List(<<c_path, <<"-", "v">>, <<"-", "q">>>>)
  /\ c_exec = "argv"

\* ---- stop() (Spec)
\* C22: once stop() was called after run_daemon was invoked, the daemon
\* loop starts no new collection cycle, and a run_daemon that leaves its
\* loop without an interrupt returns 0.
C22_StopNeverLost ==
  /\ [][(mode = "daemon" /\ stop_called /\ pc = "loop") => pc' # "cycle"]_vars
  /\ [](( /\ mode = "daemon"
          /\ stop_called
          /\ cycles > 0
          /\ int_at = None
          /\ pc = "exited") => ret = "0")

====
